---- MODULE Spec2Model ----
(***************************************************************************)
(* Model of the adaptive marker clustering of vrishti's MapView component  *)
(* (src/components/MapView.tsx): the grid partitioner and the cluster      *)
(* aggregator of clusterNearbyMarkers, and the render policy of            *)
(* locationsToRender with the state that feeds it: the data requests, the  *)
(* debounced search and the coordinate search.                             *)
(*                                                                         *)
(* Numbers.  Coordinates are integers in units of 0.0001 degree (the       *)
(* precision of the sample data), measurements are integers in units of    *)
(* 0.1.  Quotients (the cell size, the averages) are exact rationals       *)
(* [num, den]; floating point rounding is not modelled.  NaN stands for a  *)
(* coordinate that is not a number (undefined or NaN in JavaScript),       *)
(* NegInf for the -Infinity that Math.max yields on no argument, and       *)
(* Undefined for a measurement a record does not have.  The three are      *)
(* integers outside the range of every coordinate and measurement (TLC     *)
(* compares only values of one type), and no arithmetic is done on them.   *)
(*                                                                         *)
(* Left out.  The description text of a marker, and the state of the       *)
(* component that neither the partitioner nor the render policy reads:     *)
(* is3D, radarData, showFileSelector and availableFiles.  No code calls    *)
(* handleLocationClick, so selectedLocation is only ever cleared.          *)
(***************************************************************************)
EXTENDS Integers, Sequences, FiniteSets, TLC

\* ---------------------------------------------------------------- bounds

\* Longest point list handed to one call of clusterNearbyMarkers.
MaxPoints == 4
\* Highest zoom level of a call.
MaxZoom == 13
\* Highest zoom level the map is brought to.
MaxMapZoom == 12
\* Points of the largest data file beyond the clustering threshold.
ExtraPoints == 1
\* Data requests in flight at once.
MaxInFlight == 1
\* Most plots of the dense patch behind a cluster whose popup is opened.
MaxMembers == 11

\* ------------------------------------------------------- program constants

\* zoomLevel: number = 5, the default parameter of clusterNearbyMarkers.
DefaultZoom == 5
\* useState(10), the initial mapZoom.
InitialMapZoom == 10
\* zoomLevel >= 12: the finer divisor and the small-cell override.
DetailZoom == 12
\* Math.max(0, zoomLevel - 8)
ZoomBase == 8
\* (zoomLevel >= 12 ? 50 : 30)
FineDivisor == 50
CoarseDivisor == 30
\* Math.max(0.0005, ...) in units of 0.0001 degree
MinGridUnits == 5
\* cluster.length <= 3
SmallCell == 3
\* filteredLocations.length > 100
ClusterThreshold == 100
\* zoom={locationsToRender.length > 0 ? 8 : 2}: the map's zoom at mount,
\* when nothing is loaded yet and when data is.
MountZoom == 2
DataMountZoom == 8

\* ------------------------------------------------------------ JS numbers

NaN == 9999999
NegInf == -9999999
Undefined == -8888888

IsNaN(x) == x = NaN

RECURSIVE Pow2(_)
Pow2(n) == IF n <= 0 THEN 1 ELSE 2 * Pow2(n - 1)

\* The largest of one or more numbers, taken by halves to keep the
\* evaluation shallow.
RECURSIVE LargestOf(_)
LargestOf(xs) ==
  IF Len(xs) = 1 THEN xs[1]
  ELSE LET mid == Len(xs) \div 2
           a == LargestOf(SubSeq(xs, 1, mid))
           b == LargestOf(SubSeq(xs, mid + 1, Len(xs)))
       IN IF a >= b THEN a ELSE b

\* Math.max(...xs): -Infinity on no argument, NaN when an argument is NaN.
MathMaxSeq(xs) ==
  IF xs = <<>> THEN NegInf
  ELSE IF \E j \in 1..Len(xs) : IsNaN(xs[j]) THEN NaN
  ELSE LargestOf(xs)

\* Math.min(...xs), negated: -Math.min(...xs) = Math.max(...(-xs)).
NegSeq(xs) == [j \in 1..Len(xs) |-> IF IsNaN(xs[j]) THEN NaN ELSE 0 - xs[j]]

\* Math.max(...xs) - Math.min(...xs); on no argument -Infinity - Infinity.
SpreadOf(xs) ==
  LET hi == MathMaxSeq(xs)
      nlo == MathMaxSeq(NegSeq(xs))
  IN IF IsNaN(hi) \/ IsNaN(nlo) THEN NaN
     ELSE IF hi = NegInf THEN NegInf
     ELSE hi + nlo

\* Math.max(a, b) of two spreads.
MathMax2(a, b) ==
  IF IsNaN(a) \/ IsNaN(b) THEN NaN
  ELSE IF a = NegInf THEN b
  ELSE IF b = NegInf THEN a
  ELSE IF a >= b THEN a ELSE b

\* Exact rationals; 0/0 is the NaN of a quotient.
Rat(n, d) == [num |-> n, den |-> d]
NaNRat == Rat(0, 0)
IsNaNRat(q) == q.den = 0
RatLess(p, q) == p.num * q.den < q.num * p.den
RatEq(p, q) == p.num * q.den = q.num * p.den

\* -------------------------------------------------------- grid partitioner

\* Faulty variant of Divisor: the finer divisor at every zoom level.
DivisorFineOnly(zoomLevel) == FineDivisor

\* Faulty variant of Divisor: the branches of the conditional are swapped.
DivisorSwapped(zoomLevel) == IF zoomLevel >= DetailZoom THEN CoarseDivisor ELSE FineDivisor

Divisor(zoomLevel) == IF zoomLevel >= DetailZoom THEN FineDivisor ELSE CoarseDivisor

\* Faulty variant of ZoomFactor: the cell size starts to shrink above zoom
\* 10, not above zoom 8.
ZoomFactorAboveTen(zoomLevel) ==
  Pow2(IF zoomLevel - 10 > 0 THEN zoomLevel - 10 ELSE 0)

ZoomFactor(zoomLevel) ==
  Pow2(IF zoomLevel - ZoomBase > 0 THEN zoomLevel - ZoomBase ELSE 0)

Lats(locations) == [j \in 1..Len(locations) |-> locations[j].lat]
Lngs(locations) == [j \in 1..Len(locations) |-> locations[j].lng]

\* Faulty variant of GridSize: the Math.max(0.0005, ...) floor is left out.
GridSizeNoFloor(locations, zoomLevel) ==
  LET range == MathMax2(SpreadOf([j \in 1..Len(locations) |-> locations[j].lat]),
                        SpreadOf([j \in 1..Len(locations) |-> locations[j].lng]))
  IN IF IsNaN(range) THEN NaNRat
     ELSE IF range = NegInf THEN Rat(-1, 1)
     ELSE Rat(range, (IF zoomLevel >= DetailZoom THEN FineDivisor ELSE CoarseDivisor)
                     * Pow2(IF zoomLevel - ZoomBase > 0 THEN zoomLevel - ZoomBase ELSE 0))

\* The cell size in units of 0.0001 degree: a rational, NaN when a
\* coordinate is not a number.
GridSize(locations, zoomLevel) ==
  LET latRange == SpreadOf(Lats(locations))
      lngRange == SpreadOf(Lngs(locations))
      range == MathMax2(latRange, lngRange)
      floorSize == Rat(MinGridUnits, 1)
  IN IF IsNaN(range) THEN NaNRat
     ELSE IF range = NegInf THEN floorSize
     ELSE LET scaled == Rat(range, Divisor(zoomLevel) * ZoomFactor(zoomLevel))
          IN IF RatLess(floorSize, scaled) THEN scaled ELSE floorSize

\* Faulty variant of FloorDiv: Math.round(x / gridSize).
RoundDiv(x, gridSize) ==
  IF IsNaN(x) \/ IsNaNRat(gridSize) THEN NaN
  ELSE (2 * x * gridSize.den + gridSize.num) \div (2 * gridSize.num)

\* Math.floor(x / gridSize)
FloorDiv(x, gridSize) ==
  IF IsNaN(x) \/ IsNaNRat(gridSize) THEN NaN
  ELSE (x * gridSize.den) \div gridSize.num

NumText(x) == IF IsNaN(x) THEN "NaN" ELSE ToString(x)

\* `${gridX}_${gridY}`
CellKey(location, gridSize) ==
  NumText(FloorDiv(location.lat, gridSize)) \o "_" \o
  NumText(FloorDiv(location.lng, gridSize))

\* Faulty variant of PushLocation: clusters[key] = [location], so a cell
\* keeps only its last point.
PushLocationOverwrite(cells, location, gridSize) ==
  LET key == NumText(FloorDiv(location.lat, gridSize)) \o "_" \o
             NumText(FloorDiv(location.lng, gridSize))
      at == {j \in 1..Len(cells) : cells[j].key = key}
  IN IF at = {} THEN Append(cells, [key |-> key, points |-> <<location>>])
     ELSE LET j == CHOOSE k \in at : TRUE
          IN [cells EXCEPT ![j].points = <<location>>]

\* Faulty variant of PushLocation: clusters[key].unshift(location), so a
\* cell holds its points in reverse order.
PushLocationFront(cells, location, gridSize) ==
  LET key == NumText(FloorDiv(location.lat, gridSize)) \o "_" \o
             NumText(FloorDiv(location.lng, gridSize))
      at == {j \in 1..Len(cells) : cells[j].key = key}
  IN IF at = {} THEN Append(cells, [key |-> key, points |-> <<location>>])
     ELSE LET j == CHOOSE k \in at : TRUE
          IN [cells EXCEPT ![j].points = <<location>> \o @]

\* if (!clusters[key]) clusters[key] = []; clusters[key].push(location)
\* The object keeps its keys in the order of their first insertion.
PushLocation(cells, location, gridSize) ==
  LET key == CellKey(location, gridSize)
      at == {j \in 1..Len(cells) : cells[j].key = key}
  IN IF at = {} THEN Append(cells, [key |-> key, points |-> <<location>>])
     ELSE LET j == CHOOSE k \in at : TRUE
          IN [cells EXCEPT ![j].points = Append(@, location)]

\* -------------------------------------------------------- cluster aggregator

\* (loc.field || 0): a missing value, NaN and 0 all count as 0.
OrZero(v) == IF v = Undefined \/ IsNaN(v) THEN 0 ELSE v

\* cluster.reduce((sum, loc) => sum + f(loc), 0) over the values xs.  The
\* sum is exact, so it is taken by halves to keep the evaluation shallow.
RECURSIVE Reduce(_)
Reduce(xs) ==
  IF xs = <<>> THEN 0
  ELSE IF \E j \in 1..Len(xs) : IsNaN(xs[j]) THEN NaN
  ELSE IF Len(xs) = 1 THEN xs[1]
  ELSE LET mid == Len(xs) \div 2
       IN Reduce(SubSeq(xs, 1, mid)) + Reduce(SubSeq(xs, mid + 1, Len(xs)))

\* cluster.reduce(...) / cluster.length
Average(xs) ==
  LET sum == Reduce(xs)
  IN IF IsNaN(sum) THEN NaNRat ELSE Rat(sum, Len(xs))

FieldOrZero(cluster, field) ==
  [j \in 1..Len(cluster) |-> OrZero(cluster[j][field])]

\* Faulty variant of ClusterRecord: each measurement is averaged over the
\* members that have it, not over all members.
ClusterRecordPresentOnly(cluster) ==
  LET Present(field) ==
        SelectSeq([j \in 1..Len(cluster) |-> cluster[j][field]],
                  LAMBDA v : v # Undefined)
      Mean(field) ==
        IF Present(field) = <<>> THEN Rat(0, 1)
        ELSE Rat(Reduce(Present(field)), Len(Present(field)))
  IN [ id |-> "cluster_" \o cluster[1].id \o "_" \o ToString(Len(cluster)),
       name |-> "Cluster (" \o ToString(Len(cluster)) \o " points)",
       lat |-> Average([j \in 1..Len(cluster) |-> cluster[j].lat]),
       lng |-> Average([j \in 1..Len(cluster) |-> cluster[j].lng]),
       category |-> "cluster",
       reflectivity |-> Mean("reflectivity"),
       rainfall_rate |-> Mean("rainfall_rate"),
       altitude |-> Mean("altitude"),
       clusterSize |-> Len(cluster),
       clusterPoints |-> cluster ]

\* Faulty variant of ClusterRecord: the id is built from the last member of
\* the cell, not the first.
ClusterRecordIdByLast(cluster) ==
  [ id |-> "cluster_" \o cluster[Len(cluster)].id \o "_" \o ToString(Len(cluster)),
    name |-> "Cluster (" \o ToString(Len(cluster)) \o " points)",
    lat |-> Average([j \in 1..Len(cluster) |-> cluster[j].lat]),
    lng |-> Average([j \in 1..Len(cluster) |-> cluster[j].lng]),
    category |-> "cluster",
    reflectivity |-> Average([j \in 1..Len(cluster) |-> OrZero(cluster[j].reflectivity)]),
    rainfall_rate |-> Average([j \in 1..Len(cluster) |-> OrZero(cluster[j].rainfall_rate)]),
    altitude |-> Average([j \in 1..Len(cluster) |-> OrZero(cluster[j].altitude)]),
    clusterSize |-> Len(cluster),
    clusterPoints |-> cluster ]

\* Faulty variant of ClusterRecord: the id is built from the member count
\* alone, the first member's id is left out.
ClusterRecordIdByCount(cluster) ==
  [ id |-> "cluster_" \o ToString(Len(cluster)),
    name |-> "Cluster (" \o ToString(Len(cluster)) \o " points)",
    lat |-> Average([j \in 1..Len(cluster) |-> cluster[j].lat]),
    lng |-> Average([j \in 1..Len(cluster) |-> cluster[j].lng]),
    category |-> "cluster",
    reflectivity |-> Average([j \in 1..Len(cluster) |-> OrZero(cluster[j].reflectivity)]),
    rainfall_rate |-> Average([j \in 1..Len(cluster) |-> OrZero(cluster[j].rainfall_rate)]),
    altitude |-> Average([j \in 1..Len(cluster) |-> OrZero(cluster[j].altitude)]),
    clusterSize |-> Len(cluster),
    clusterPoints |-> cluster ]

\* The cluster representative of a cell.
ClusterRecord(cluster) ==
  [ id |-> "cluster_" \o cluster[1].id \o "_" \o ToString(Len(cluster)),
    name |-> "Cluster (" \o ToString(Len(cluster)) \o " points)",
    lat |-> Average(Lats(cluster)),
    lng |-> Average(Lngs(cluster)),
    category |-> "cluster",
    reflectivity |-> Average(FieldOrZero(cluster, "reflectivity")),
    rainfall_rate |-> Average(FieldOrZero(cluster, "rainfall_rate")),
    altitude |-> Average(FieldOrZero(cluster, "altitude")),
    clusterSize |-> Len(cluster),
    clusterPoints |-> cluster ]

\* Faulty variant of MapCell: the override at zoom 12 covers cells of up to
\* 2 points only.
MapCellPairsOnly(cluster, zoomLevel) ==
  IF Len(cluster) = 1 \/ (zoomLevel >= DetailZoom /\ Len(cluster) <= 2)
  THEN IF Len(cluster) = 1
       THEN [isArray |-> FALSE, value |-> cluster[1]]
       ELSE [isArray |-> TRUE, value |-> [j \in 1..Len(cluster) |-> cluster[j]]]
  ELSE [isArray |-> FALSE, value |-> ClusterRecord(cluster)]

\* Faulty variant of MapCell: the override at zoom 12 covers cells of up to
\* 4 points.
MapCellUpToFour(cluster, zoomLevel) ==
  IF Len(cluster) = 1 \/ (zoomLevel >= DetailZoom /\ Len(cluster) <= 4)
  THEN IF Len(cluster) = 1
       THEN [isArray |-> FALSE, value |-> cluster[1]]
       ELSE [isArray |-> TRUE, value |-> [j \in 1..Len(cluster) |-> cluster[j]]]
  ELSE [isArray |-> FALSE, value |-> ClusterRecord(cluster)]

\* Faulty variant of MapCell: the test cluster.length === 1 is left out, so
\* below zoom 12 a single point becomes a cluster of one.
MapCellNoSingle(cluster, zoomLevel) ==
  IF zoomLevel >= DetailZoom /\ Len(cluster) <= SmallCell
  THEN [isArray |-> TRUE, value |-> [j \in 1..Len(cluster) |-> cluster[j]]]
  ELSE [isArray |-> FALSE, value |-> ClusterRecord(cluster)]

\* Faulty variant of MapCell: the override starts at zoom 13 (the component's
\* MIN_ZOOM_FOR_INDIVIDUAL_MARKERS), not at zoom 12.
MapCellFromThirteen(cluster, zoomLevel) ==
  IF Len(cluster) = 1 \/ (zoomLevel >= 13 /\ Len(cluster) <= SmallCell)
  THEN IF Len(cluster) = 1
       THEN [isArray |-> FALSE, value |-> cluster[1]]
       ELSE [isArray |-> TRUE, value |-> [j \in 1..Len(cluster) |-> cluster[j]]]
  ELSE [isArray |-> FALSE, value |-> ClusterRecord(cluster)]

\* The callback of Object.values(clusters).map: the point itself, an array of
\* the cell's points, or the cluster representative.
MapCell(cluster, zoomLevel) ==
  IF Len(cluster) = 1 \/ (zoomLevel >= DetailZoom /\ Len(cluster) <= SmallCell)
  THEN IF Len(cluster) = 1
       THEN [isArray |-> FALSE, value |-> cluster[1]]
       ELSE [isArray |-> TRUE, value |-> [j \in 1..Len(cluster) |-> cluster[j]]]
  ELSE [isArray |-> FALSE, value |-> ClusterRecord(cluster)]

\* .flat(): the elements that are arrays are replaced by their elements
\* (concatenated by halves to keep the evaluation shallow).
RECURSIVE Flat(_)
Flat(mapped) ==
  IF mapped = <<>> THEN <<>>
  ELSE IF Len(mapped) = 1
  THEN IF mapped[1].isArray THEN mapped[1].value ELSE <<mapped[1].value>>
  ELSE LET mid == Len(mapped) \div 2
       IN Flat(SubSeq(mapped, 1, mid)) \o Flat(SubSeq(mapped, mid + 1, Len(mapped)))

\* Object.values(clusters).map(...).flat()
ClusteredPoints(cells, zoomLevel) ==
  Flat([j \in 1..Len(cells) |-> MapCell(cells[j].points, zoomLevel)])

\* The cells after the pushes that gave `cells` are followed by the pushes
\* that, from the empty object, give `more`: a key both have keeps its place
\* and gets the later points appended, a new key is added at the end.
MergeCells(cells, more) ==
  LET HasKey(cs, key) == \E j \in 1..Len(cs) : cs[j].key = key
      Later(key) ==
        IF HasKey(more, key)
        THEN more[CHOOSE j \in 1..Len(more) : more[j].key = key].points
        ELSE <<>>
  IN [j \in 1..Len(cells) |->
        [key |-> cells[j].key, points |-> cells[j].points \o Later(cells[j].key)]]
     \o SelectSeq(more, LAMBDA cell : ~HasKey(cells, cell.key))

\* locations.forEach(...) from the empty object, as one value: the pushes of
\* the first half followed by those of the second half.
RECURSIVE Partition(_, _)
Partition(locations, gridSize) ==
  IF locations = <<>> THEN <<>>
  ELSE IF Len(locations) = 1 THEN PushLocation(<<>>, locations[1], gridSize)
  ELSE LET mid == Len(locations) \div 2
       IN MergeCells(Partition(SubSeq(locations, 1, mid), gridSize),
                     Partition(SubSeq(locations, mid + 1, Len(locations)), gridSize))

\* clusterNearbyMarkers(locations, zoomLevel) as one value.
ClusterNearbyMarkers(locations, zoomLevel) ==
  ClusteredPoints(Partition(locations, GridSize(locations, zoomLevel)), zoomLevel)

\* An item of a render list is a cluster when it has a clusterSize.
IsCluster(item) == "clusterSize" \in DOMAIN item

\* ------------------------------------------------------------- data route

\* plot.intensity_category || (rainfall_rate > 2 ? ... : rainfall_rate > 1 ? ...);
\* the backend's plots carry no intensity_category, and a comparison with a
\* missing rainfall_rate is false.
CategoryOf(plot) ==
  IF plot.rainfall_rate # Undefined /\ plot.rainfall_rate > 20 THEN "high_rain"
  ELSE IF plot.rainfall_rate # Undefined /\ plot.rainfall_rate > 10 THEN "medium_rain"
  ELSE "low_rain"

\* One element of data.radar_plots.map((plot, index) => ...), index from 0.
PlotLocation(plot, index, fileId) ==
  [ id |-> "radar_" \o fileId \o "_" \o ToString(index),
    name |-> "Radar Point " \o ToString(index + 1),
    lat |-> plot.latitude,
    lng |-> plot.longitude,
    category |-> CategoryOf(plot),
    reflectivity |-> plot.reflectivity,
    rainfall_rate |-> plot.rainfall_rate,
    altitude |-> plot.altitude ]

RouteLocations(plots, fileId) ==
  [j \in 1..Len(plots) |-> PlotLocation(plots[j], j - 1, fileId)]

\* ------------------------------------------------- inputs of a direct call

Plot(lat, lng, refl, rain, alt) ==
  [latitude |-> lat, longitude |-> lng, reflectivity |-> refl,
   rainfall_rate |-> rain, altitude |-> alt]

\* The plots a point list is drawn from: three points within 0.0007 degree
\* of each other, one about a degree away with a negative latitude, and one
\* whose latitude is not a number; each measurement is missing somewhere.
PlotPool ==
  { Plot(0, 0, 100, 10, Undefined),
    Plot(3, 1, Undefined, 20, 60),
    Plot(7, 2, 450, 30, 120),
    Plot(-2, 9600, 330, Undefined, 0),
    Plot(NaN, 5, 200, 5, 80) }

PlotLists == UNION {[1..n -> PlotPool] : n \in 0..MaxPoints}

\* The zoom levels of a direct call: a negative one, zero, the default, the
\* initial mapZoom, the levels from 12 on, and one so large that the cell
\* size is the floor for every list.
ZoomLevels == {-1, 0, DefaultZoom, InitialMapZoom, 30} \cup (DetailZoom..MaxZoom)

\* ------------------------------------------------------------ sample data

SampleLocation(id, name, lat, lng, category, refl, rain, alt) ==
  [id |-> id, name |-> name, lat |-> lat, lng |-> lng, category |-> category,
   reflectivity |-> refl, rainfall_rate |-> rain, altitude |-> alt]

sampleLocations ==
  << SampleLocation("sample_1", "Kolkata Weather Station", 225726, 883639,
                    "high_rain", 452, 125, 60),
     SampleLocation("sample_2", "Howrah Station", 225958, 882636,
                    "medium_rain", 321, 52, 80),
     SampleLocation("sample_3", "Salt Lake Station", 225744, 884326,
                    "low_rain", 185, 8, 40),
     SampleLocation("sample_4", "Jadavpur Station", 224987, 883731,
                    "medium_rain", 287, 31, 120),
     SampleLocation("sample_5", "Dumdum Station", 226405, 884169,
                    "high_rain", 523, 189, 50) >>

\* ---------------------------------------------------------------- strings

\* The lower-case letter of each upper-case letter.
LowerOf ==
  [A |-> "a", B |-> "b", C |-> "c", D |-> "d", E |-> "e", F |-> "f", G |-> "g",
   H |-> "h", I |-> "i", J |-> "j", K |-> "k", L |-> "l", M |-> "m", N |-> "n",
   O |-> "o", P |-> "p", Q |-> "q", R |-> "r", S |-> "s", T |-> "t", U |-> "u",
   V |-> "v", W |-> "w", X |-> "x", Y |-> "y", Z |-> "z"]

CharAt(s, j) == SubSeq(s, j, j)

LowerChar(c) == IF c \in DOMAIN LowerOf THEN LowerOf[c] ELSE c

\* s.toLowerCase()
RECURSIVE ToLowerCase(_)
ToLowerCase(s) ==
  IF Len(s) = 0 THEN ""
  ELSE LowerChar(CharAt(s, 1)) \o ToLowerCase(SubSeq(s, 2, Len(s)))

\* s.includes(t)
Includes(s, t) ==
  \E j \in 0..(Len(s) - Len(t)) : SubSeq(s, j + 1, j + Len(t)) = t

\* s.trim() for the blanks a search box holds.
RECURSIVE Trim(_)
Trim(s) ==
  IF Len(s) = 0 THEN ""
  ELSE IF CharAt(s, 1) = " " THEN Trim(SubSeq(s, 2, Len(s)))
  ELSE IF CharAt(s, Len(s)) = " " THEN Trim(SubSeq(s, 1, Len(s) - 1))
  ELSE s

\* ------------------------------------------------------------ data files

\* The i-th plot of a large radar file: a lattice of 7 latitudes
\* 0.0004 degree apart in rows 0.015 degree apart.
GenPlot(i) ==
  Plot((i % 7) * 4, (i \div 7) * 150,
       IF i % 5 = 4 THEN Undefined ELSE (i % 5) * 110,
       (i % 4) * 9,
       i)

GenPlots(n) == [j \in 1..n |-> GenPlot(j - 1)]

Files == {"f1", "f2", "f3"}

\* The radar_plots of a file with more points than the clustering threshold
\* in which one plot has no latitude: the route and fetchRadarData check
\* that radar_plots and locations are arrays, not what the elements hold.
BadPlots ==
  [GenPlots(ClusterThreshold + ExtraPoints) EXCEPT ![2] = Plot(NaN, 300, 120, 9, 40)]

\* The radar_plots the backend holds for a file: one file has as many
\* points as the clustering threshold, one has more, and one has more and
\* holds the plot without latitude.
FilePlots(fileId) ==
  IF fileId = "f1" THEN GenPlots(ClusterThreshold)
  ELSE IF fileId = "f2" THEN GenPlots(ClusterThreshold + ExtraPoints)
  ELSE BadPlots

\* The file the backend serves when the request names none.
LatestFile == "f2"

\* ------------------------------------------------------ the argument limit

\* Math.max(...lats) passes every element of lats as one argument of a call.
\* An engine accepts only so many arguments (65536 in JavaScriptCore, as
\* many as the stack holds in V8) and throws a RangeError beyond.  The limit
\* is scaled to the model: every other list of the model is within it.
ArgumentLimit == 2 * ClusterThreshold

\* A list of numeric points that is longer than the limit.
LongPlots == GenPlots(ArgumentLimit + 1)

\* Faulty variant of SpreadMayThrow: the extent is computed with
\* lats.reduce((a, b) => Math.max(a, b)), which throws a TypeError on an
\* empty array.
ReduceMayThrow(locs) == Len(locs) = 0 \/ Len(locs) > 2 * ClusterThreshold

\* Whether Math.max(...lats) can throw for the list.
SpreadMayThrow(locs) == Len(locs) > ArgumentLimit

\* ------------------------------------------------------------ nullables

Null == <<>>
Some(x) == <<x>>

\* ------------------------------------------------------- search and render

SearchTerms == {"", "HIGH", "rain"}

\* The body of the debounce timer: the filter of allLocations by the term.
FilterLocations(all, term) ==
  IF Trim(term) = "" THEN all
  ELSE LET lowerTerm == ToLowerCase(term)
       IN SelectSeq(all, LAMBDA location :
            \/ Includes(ToLowerCase(location.name), lowerTerm)
            \/ Includes(ToLowerCase(location.category), lowerTerm))

\* const shouldUseCluster = filteredLocations.length > 100
ShouldUseCluster(filtered) == Len(filtered) > ClusterThreshold

\* Faulty variant of ComputeLocationsToRender: clustering starts at 100
\* points, not above 100.
ComputeLocationsToRenderFrom100(filtered, zoom) ==
  IF Len(filtered) >= ClusterThreshold
  THEN ClusterNearbyMarkers(filtered, zoom)
  ELSE filtered

\* The function useMemo wraps for locationsToRender.
ComputeLocationsToRender(filtered, zoom) ==
  IF ShouldUseCluster(filtered) /\ Len(filtered) > ClusterThreshold
  THEN ClusterNearbyMarkers(filtered, zoom)
  ELSE filtered

\* Faulty variant of UseMemo: mapZoom is missing from the dependencies, so
\* a zoom change alone keeps the memoised list.
UseMemoWithoutZoom(memo, oldFiltered, oldZoom, newFiltered, newZoom) ==
  IF oldFiltered = newFiltered
  THEN memo
  ELSE IF Len(newFiltered) > ClusterThreshold
       THEN ClusterNearbyMarkers(newFiltered, newZoom)
       ELSE newFiltered

\* useMemo(..., [filteredLocations, mapZoom, shouldUseCluster,
\* clusterNearbyMarkers]): the memoised value is kept unless a dependency
\* changed since the last render.
UseMemo(memo, oldFiltered, oldZoom, newFiltered, newZoom) ==
  IF oldFiltered = newFiltered /\ oldZoom = newZoom
     /\ ShouldUseCluster(oldFiltered) = ShouldUseCluster(newFiltered)
  THEN memo
  ELSE ComputeLocationsToRender(newFiltered, newZoom)

\* ------------------------------------------------------------------ state

\* The value of a result no call has produced yet.
NoResult == <<[isArray |-> FALSE]>>

VARIABLES
  radarPlots,       \* the plots the point list of the call was built from
  locations,        \* clusterNearbyMarkers: the argument locations
  zoomLevel,        \* clusterNearbyMarkers: the argument zoomLevel
  pc,               \* position in clusterNearbyMarkers
  gridSize,         \* const gridSize
  clusters,         \* const clusters, the cells in insertion order
  idx,              \* position of locations.forEach
  clusteredPoints,  \* the value returned by the call
  firstResult,      \* what the earlier call on the same arguments returned
  again             \* whether this is the second call on the arguments

callVars == <<radarPlots, locations, zoomLevel, pc, gridSize, clusters, idx,
              clusteredPoints, firstResult, again>>

VARIABLES
  mounted,            \* whether the mount effects have run
  allLocations,       \* useState: the loaded data
  filteredLocations,  \* useState: the data the search leaves
  searchTerm,         \* useState
  debounceTimer,      \* the pending timers of the search effect, each with
                      \* the searchTerm and allLocations of the render that set it
  mapZoom,            \* useState
  leafletZoom,        \* map.getZoom() of the Leaflet map, once it exists
  visibleBounds,      \* useState
  locationsToRender,  \* useMemo: the 2D render list
  inFlight,           \* the file ids of the data requests not yet settled
  isLoading,          \* useState
  error,              \* useState
  selectedFileId,     \* useState
  dataMetadata,       \* useState
  targetCoordinates,  \* useState
  selectedLocation,   \* useState
  initialRadarData,   \* the prop of MapView, null when none is given
  response            \* what the request that settled last came back with,
                      \* null once a later request is started

viewVars == <<mounted, allLocations, filteredLocations, searchTerm, debounceTimer,
              mapZoom, leafletZoom, visibleBounds, locationsToRender, inFlight, isLoading,
              error, selectedFileId, dataMetadata, targetCoordinates,
              selectedLocation, initialRadarData, response>>

VARIABLES
  popupItem,          \* the position in the render list of the marker whose
                      \* popup is open, 0 when none is
  popupPoints         \* the members the open popup lists

popupVars == <<popupItem, popupPoints>>

VARIABLES
  latitude,           \* useState: the text of the latitude box
  longitude           \* useState: the text of the longitude box

boxVars == <<latitude, longitude>>

VARIABLES
  coarseZoom,         \* the zoom level of an earlier call on the same list,
                      \* at a lower zoom level; none before the first zoom in
  coarseGridSize,     \* const gridSize of that call
  coarseClusters      \* const clusters of that call

coarseVars == <<coarseZoom, coarseGridSize, coarseClusters>>

vars == <<callVars, viewVars, popupVars, boxVars, coarseVars>>

\* The useState initial values of MapView, before its effects run; no popup
\* is open and no earlier call is remembered.
InitView ==
  /\ mounted = FALSE
  /\ allLocations = <<>>
  /\ filteredLocations = <<>>
  /\ searchTerm = ""
  /\ debounceTimer = <<>>
  /\ mapZoom = InitialMapZoom
  /\ leafletZoom = Null
  /\ visibleBounds = Null
  /\ locationsToRender = <<>>
  /\ inFlight = {}
  /\ isLoading = TRUE
  /\ error = Null
  /\ selectedFileId = Null
  /\ dataMetadata = Null
  /\ targetCoordinates = Null
  /\ selectedLocation = Null
  /\ response = Null
  /\ popupItem = 0
  /\ popupPoints = <<>>
  /\ latitude = ""
  /\ longitude = ""
  /\ coarseZoom = Null
  /\ coarseGridSize = NaNRat
  /\ coarseClusters = <<>>

\* No call of clusterNearbyMarkers is in progress.
IdleCall ==
  /\ radarPlots = <<>>
  /\ locations = <<>>
  /\ zoomLevel = DefaultZoom
  /\ pc = "idle"
  /\ gridSize = NaNRat
  /\ clusters = <<>>
  /\ idx = 0
  /\ clusteredPoints = NoResult
  /\ firstResult = NoResult
  /\ again = FALSE

InitCall ==
  /\ InitView
  /\ initialRadarData = Null
  /\ radarPlots \in PlotLists \cup {LongPlots}
  /\ locations = RouteLocations(radarPlots, "f1")
  /\ zoomLevel \in ZoomLevels
  /\ pc = "idle"
  /\ gridSize = NaNRat
  /\ clusters = <<>>
  /\ idx = 0
  /\ clusteredPoints = NoResult
  /\ firstResult = NoResult
  /\ again = FALSE

\* Faulty variant of Enter: the object of cells is created once and shared
\* by the calls, so a call starts from the cells of the call before.
EnterKeepCells ==
  /\ pc = "idle"
  /\ gridSize' = GridSize(locations, zoomLevel)
  /\ clusters' = clusters
  /\ idx' = 1
  /\ pc' = "forEach"
  /\ UNCHANGED <<radarPlots, locations, zoomLevel, clusteredPoints, firstResult, again>>
  /\ UNCHANGED <<viewVars, popupVars, boxVars, coarseVars>>

\* clusterNearbyMarkers up to the forEach: the cell size, and a fresh empty
\* object of cells.
Enter ==
  /\ pc = "idle"
  /\ ~SpreadMayThrow(locations)
  /\ gridSize' = GridSize(locations, zoomLevel)
  /\ clusters' = <<>>
  /\ idx' = 1
  /\ pc' = "forEach"
  /\ UNCHANGED <<radarPlots, locations, zoomLevel, clusteredPoints, firstResult, again>>
  /\ UNCHANGED <<viewVars, popupVars, boxVars, coarseVars>>

\* Math.max(...lats) throws: the call ends with a RangeError.
EnterThrows ==
  /\ pc = "idle"
  /\ SpreadMayThrow(locations)
  /\ pc' = "error"
  /\ UNCHANGED <<radarPlots, locations, zoomLevel, gridSize, clusters, idx,
                 clusteredPoints, firstResult, again>>
  /\ UNCHANGED <<viewVars, popupVars, boxVars, coarseVars>>

\* One turn of locations.forEach.
ForEach ==
  /\ pc = "forEach"
  /\ idx <= Len(locations)
  /\ clusters' = PushLocation(clusters, locations[idx], gridSize)
  /\ idx' = idx + 1
  /\ UNCHANGED <<radarPlots, locations, zoomLevel, pc, gridSize, clusteredPoints,
                 firstResult, again>>
  /\ UNCHANGED <<viewVars, popupVars, boxVars, coarseVars>>

\* Object.values(clusters).map(...).flat() and the return.
MapFlat ==
  /\ pc = "forEach"
  /\ idx > Len(locations)
  /\ clusteredPoints' = ClusteredPoints(clusters, zoomLevel)
  /\ pc' = "done"
  /\ UNCHANGED <<radarPlots, locations, zoomLevel, gridSize, clusters, idx,
                 firstResult, again>>
  /\ UNCHANGED <<viewVars, popupVars, boxVars, coarseVars>>

\* The same callback (useCallback with no dependencies) is called once more
\* with the same arguments; the caller keeps the first result.
CallAgain ==
  /\ pc = "done"
  /\ ~again
  /\ again' = TRUE
  /\ firstResult' = clusteredPoints
  /\ pc' = "idle"
  /\ UNCHANGED <<radarPlots, locations, zoomLevel, gridSize, clusters, idx,
                 clusteredPoints>>
  /\ UNCHANGED <<viewVars, popupVars, boxVars, coarseVars>>

NextCall == Enter \/ EnterThrows \/ ForEach \/ MapFlat \/ CallAgain

SpecCluster == InitCall /\ [][NextCall]_vars

\* ------------------------------------------------------------- scenario B

\* 150 points over a box of 1 degree by 1 degree, in units of 0.0001 degree.
ScenarioPoints == 150
ScenarioSpread == 10000

\* The measurements of the i-th point of a scenario list.
ScenarioPlot(lat, lng, i) ==
  Plot(lat, lng, (i % 5) * 110, (i % 4) * 9, i)

\* An evenly spaced lattice of 15 by 10 points that spans the box.
LatticePlot(i) ==
  ScenarioPlot(((i % 15) * ScenarioSpread) \div 14,
               ((i \div 15) * ScenarioSpread) \div 9, i)

\* Points scattered over the box, two of them on opposite corners.
ScatterPlot(i) ==
  IF i = 0 THEN ScenarioPlot(0, 0, i)
  ELSE IF i = 1 THEN ScenarioPlot(ScenarioSpread, ScenarioSpread, i)
  ELSE ScenarioPlot((i * 6131) % (ScenarioSpread + 1),
                    (i * 2741) % (ScenarioSpread + 1), i)

ScenarioLists ==
  { [j \in 1..ScenarioPoints |-> LatticePlot(j - 1)],
    [j \in 1..ScenarioPoints |-> ScatterPlot(j - 1)] }

\* A call of clusterNearbyMarkers on a scenario list at zoom 5.
InitScenario ==
  /\ InitView
  /\ initialRadarData = Null
  /\ radarPlots \in ScenarioLists
  /\ locations = RouteLocations(radarPlots, "f1")
  /\ zoomLevel = DefaultZoom
  /\ pc = "idle"
  /\ gridSize = NaNRat
  /\ clusters = <<>>
  /\ idx = 0
  /\ clusteredPoints = NoResult
  /\ firstResult = NoResult
  /\ again = FALSE

NextScenario == Enter \/ ForEach \/ MapFlat

SpecScenario == InitScenario /\ [][NextScenario]_vars

\* ---------------------------------------------------------------- zooming in

\* The two plots that fix the extent of a list at 0.96 degree, and the plots
\* between them: two pairs of neighbours 0.0001 degree apart, and one plot at
\* twice the lat of a neighbour.
ExtentPlots == <<Plot(0, 0, 100, 10, 60), Plot(9600, 0, 330, 20, 0)>>

InnerPool ==
  { Plot(5, 0, 450, 30, 120),
    Plot(6, 0, 200, 5, 80),
    Plot(39, 40, 120, 9, 40),
    Plot(40, 39, 60, 3, 20),
    Plot(80, 0, 510, 27, 90) }

ZoomInLists ==
  {ExtentPlots \o inner : inner \in UNION {[1..n -> InnerPool] : n \in 0..(MaxPoints - 2)}}
  \cup {<<Plot(5, 0, 450, 30, 120)>>, <<>>}

\* The zoom level of the first call.
StartZooms == {-1, 7}

\* The first call of the render policy on a list.
InitZoomIn ==
  /\ InitView
  /\ initialRadarData = Null
  /\ radarPlots \in ZoomInLists
  /\ locations = RouteLocations(radarPlots, "f1")
  /\ zoomLevel \in StartZooms
  /\ pc = "idle"
  /\ gridSize = NaNRat
  /\ clusters = <<>>
  /\ idx = 0
  /\ clusteredPoints = NoResult
  /\ firstResult = NoResult
  /\ again = FALSE

\* The map is zoomed in by one level and the render policy calls
\* clusterNearbyMarkers(locations, mapZoom) on the same list again.  The
\* call that has returned is remembered as the coarse one, or the call
\* remembered before stays.
ZoomIn ==
  /\ pc = "done"
  /\ zoomLevel < MaxZoom + 1
  /\ \/ /\ coarseZoom' = Some(zoomLevel)
        /\ coarseGridSize' = gridSize
        /\ coarseClusters' = clusters
     \/ /\ coarseZoom # Null
        /\ UNCHANGED coarseVars
  /\ zoomLevel' = zoomLevel + 1
  /\ pc' = "idle"
  /\ UNCHANGED <<radarPlots, locations, gridSize, clusters, idx, clusteredPoints,
                 firstResult, again>>
  /\ UNCHANGED <<viewVars, popupVars, boxVars>>

NextZoomIn == Enter \/ ForEach \/ MapFlat \/ ZoomIn

SpecZoomIn == InitZoomIn /\ [][NextZoomIn]_vars

\* ------------------------------------------------------------ the component

MapZooms == {MountZoom} \cup (DetailZoom..MaxMapZoom)

\* The views (map.getBounds()) the map is panned to, and the view at mount.
Views == {"v1", "v2"}
MountView == "v1"

\* zoom={locationsToRender.length > 0 ? 8 : 2}
MapContainerZoom(list) == IF Len(list) > 0 THEN DataMountZoom ELSE MountZoom

\* Faulty variant of HandleZoomEnd: the handler reports map.getMaxZoom().
HandleZoomEndMaxZoom(zoom) == MaxMapZoom

\* handleZoomEnd: onZoomChange(map.getZoom()), and setMapZoom in
\* handleZoomChange; the value mapZoom gets for the map's zoom level.
HandleZoomEnd(zoom) == zoom[1]

\* The render that follows a state change: useMemo for locationsToRender.
Rerender ==
  locationsToRender' = UseMemo(locationsToRender, filteredLocations, mapZoom,
                               filteredLocations', mapZoom')

\* Faulty variant of RunSearchEffect: the effect returns no cleanup, so the
\* timer of the render before stays pending beside the new one.
RunSearchEffectNoCleanup(timers, term, all) ==
  Append(timers, [term |-> term, all |-> all])

\* One run of the search effect on the pending timers (oldest first): the
\* cleanup of the run before clears its timer, and setTimeout sets one that
\* holds the searchTerm and the allLocations of this render.
RunSearchEffect(timers, term, all) ==
  <<[term |-> term, all |-> all]>>

\* The search effect after a render: it runs when searchTerm or allLocations
\* changed.
SearchEffect ==
  debounceTimer' =
    IF searchTerm' # searchTerm \/ allLocations' # allLocations
    THEN RunSearchEffect(debounceTimer, searchTerm', allLocations')
    ELSE debounceTimer

\* fetchRadarData up to its first await, or to its return when
\* initialRadarData was given.
BeginFetch(fileId) ==
  IF initialRadarData # Null
  THEN /\ isLoading' = FALSE
       /\ UNCHANGED <<error, inFlight, response>>
  ELSE /\ isLoading' = TRUE
       /\ error' = Null
       /\ inFlight' = inFlight \cup {fileId}
       /\ response' = Null

\* Faulty variant of FinallyIsLoading: setIsLoading(false) is the last
\* statement of the try block, so a throw leaves isLoading as it is.
FinallyIsLoadingInTry(outcome, loading) ==
  IF outcome = "failed" THEN loading ELSE FALSE

\* finally { setIsLoading(false) }: isLoading after the request has settled
\* with the outcome.
FinallyIsLoading(outcome, loading) == FALSE

\* The effects of the first commit: fetchRadarData(), the search effect,
\* and MapNavigator's initial handleMoveEnd() and handleZoomEnd().
Mount ==
  /\ ~mounted
  /\ mounted' = TRUE
  /\ BeginFetch(Null)
  /\ debounceTimer' = RunSearchEffect(debounceTimer, searchTerm, allLocations)
  /\ visibleBounds' = Some(MountView)
  /\ leafletZoom' = Some(MapContainerZoom(locationsToRender))
  /\ mapZoom' = HandleZoomEnd(leafletZoom')
  /\ UNCHANGED <<allLocations, filteredLocations, searchTerm, selectedFileId,
                 dataMetadata, targetCoordinates, selectedLocation,
                 initialRadarData>>
  /\ Rerender
  /\ UNCHANGED <<callVars, popupVars, boxVars, coarseVars>>

\* onChange of the search box.
SetSearchTerm ==
  /\ mounted
  /\ \E term \in SearchTerms :
       /\ term # searchTerm
       /\ searchTerm' = term
  /\ UNCHANGED <<leafletZoom, mounted, allLocations, filteredLocations, mapZoom, visibleBounds,
                 inFlight, isLoading, error, selectedFileId, dataMetadata,
                 targetCoordinates, selectedLocation,
                 initialRadarData, response>>
  /\ SearchEffect
  /\ Rerender
  /\ UNCHANGED <<callVars, popupVars, boxVars, coarseVars>>

\* The oldest pending timer fires, 300 ms after it was set.
DebounceFire ==
  /\ debounceTimer # <<>>
  /\ filteredLocations' = FilterLocations(debounceTimer[1].all, debounceTimer[1].term)
  /\ debounceTimer' = Tail(debounceTimer)
  /\ UNCHANGED <<leafletZoom, mounted, allLocations, searchTerm, mapZoom, visibleBounds,
                 inFlight, isLoading, error, selectedFileId, dataMetadata,
                 targetCoordinates, selectedLocation,
                 initialRadarData, response>>
  /\ Rerender
  /\ UNCHANGED <<callVars, popupVars, boxVars, coarseVars>>

\* The map's zoom level changes and zoomend is fired: handleZoomEnd reports
\* the bounds and the map's zoom level.  A view names where the map is
\* panned to, so the bounds reported are those of the same view.
ZoomEnd ==
  /\ mounted
  /\ \E zoom \in MapZooms :
       /\ Some(zoom) # leafletZoom
       /\ leafletZoom' = Some(zoom)
  /\ mapZoom' = HandleZoomEnd(leafletZoom')
  /\ visibleBounds' = visibleBounds
  /\ UNCHANGED <<mounted, allLocations, filteredLocations, searchTerm,
                 debounceTimer, inFlight, isLoading, error, selectedFileId,
                 dataMetadata, targetCoordinates, selectedLocation,
                 initialRadarData, response>>
  /\ Rerender
  /\ UNCHANGED <<callVars, popupVars, boxVars, coarseVars>>

\* The map is panned and moveend is fired: handleMoveEnd reports the bounds.
MoveEnd ==
  /\ mounted
  /\ \E view \in Views :
       /\ Some(view) # visibleBounds
       /\ visibleBounds' = Some(view)
  /\ UNCHANGED <<mapZoom, leafletZoom, mounted, allLocations, filteredLocations, searchTerm,
                 debounceTimer, inFlight, isLoading, error,
                 selectedFileId, dataMetadata, targetCoordinates, selectedLocation,
                 initialRadarData, response>>
  /\ Rerender
  /\ UNCHANGED <<callVars, popupVars, boxVars, coarseVars>>

\* refreshRadarData: fetchRadarData(selectedFileId || undefined); the button
\* is disabled while isLoading.
RefreshRadarData ==
  /\ mounted
  /\ ~isLoading
  /\ Cardinality(inFlight) < MaxInFlight
  /\ selectedFileId \notin inFlight
  /\ BeginFetch(selectedFileId)
  /\ UNCHANGED <<leafletZoom, mounted, allLocations, filteredLocations, searchTerm,
                 debounceTimer, mapZoom, visibleBounds, selectedFileId,
                 dataMetadata, targetCoordinates, selectedLocation,
                 initialRadarData>>
  /\ Rerender
  /\ UNCHANGED <<callVars, popupVars, boxVars, coarseVars>>

\* handleFileSelect(fileId) for a file other than the selected one.
HandleFileSelect ==
  /\ mounted
  /\ Cardinality(inFlight) < MaxInFlight
  /\ \E fileId \in Files :
       /\ Some(fileId) # selectedFileId
       /\ Some(fileId) \notin inFlight
       /\ BeginFetch(Some(fileId))
  /\ UNCHANGED <<leafletZoom, mounted, allLocations, filteredLocations, searchTerm,
                 debounceTimer, mapZoom, visibleBounds, selectedFileId,
                 dataMetadata, targetCoordinates, selectedLocation,
                 initialRadarData>>
  /\ Rerender
  /\ UNCHANGED <<callVars, popupVars, boxVars, coarseVars>>

\* Faulty variant of FetchLoaded: the target of the coordinate search is not
\* cleared.
FetchLoadedKeepsTarget ==
  /\ \E fileId \in inFlight :
       LET file == IF fileId = Null THEN LatestFile ELSE fileId[1]
           data == RouteLocations(FilePlots(file), file)
       IN /\ inFlight' = inFlight \ {fileId}
          /\ allLocations' = data
          /\ filteredLocations' = data
          /\ dataMetadata' = Some([id |-> file, total_points |-> Len(data)])
          /\ selectedFileId' = fileId
          /\ response' = Some([kind |-> "locations", fileId |-> fileId,
                                locations |-> data])
  /\ searchTerm' = ""
  /\ selectedLocation' = Null
  /\ isLoading' = FALSE
  /\ UNCHANGED <<leafletZoom, mounted, mapZoom, visibleBounds, error, initialRadarData,
                 targetCoordinates>>
  /\ debounceTimer' = <<[term |-> searchTerm', all |-> allLocations']>>
  /\ locationsToRender' = UseMemo(locationsToRender, filteredLocations, mapZoom,
                                  filteredLocations', mapZoom')
  /\ UNCHANGED <<callVars, popupVars, boxVars, coarseVars>>

\* The request for fileId settles with a body that has a locations array.
FetchLoaded ==
  /\ \E fileId \in inFlight :
       LET file == IF fileId = Null THEN LatestFile ELSE fileId[1]
           data == RouteLocations(FilePlots(file), file)
       IN /\ inFlight' = inFlight \ {fileId}
          /\ allLocations' = data
          /\ filteredLocations' = data
          /\ dataMetadata' = Some([id |-> file, total_points |-> Len(data)])
          /\ selectedFileId' = fileId
          /\ response' = Some([kind |-> "locations", fileId |-> fileId,
                                locations |-> data])
  /\ searchTerm' = ""
  /\ targetCoordinates' = Null
  /\ selectedLocation' = Null
  /\ isLoading' = FinallyIsLoading("locations", isLoading)
  /\ UNCHANGED <<leafletZoom, mounted, mapZoom, visibleBounds, error, initialRadarData>>
  \* data.locations is a new array, so the search effect runs again even
  \* when the same file is loaded twice.
  /\ debounceTimer' = RunSearchEffect(debounceTimer, searchTerm', allLocations')
  /\ Rerender
  /\ UNCHANGED <<callVars, popupVars, boxVars, coarseVars>>

\* The request settles with a body that has no locations array.
FetchUnexpected ==
  /\ \E fileId \in inFlight : inFlight' = inFlight \ {fileId}
  /\ allLocations' = sampleLocations
  /\ filteredLocations' = sampleLocations
  /\ dataMetadata' = Null
  /\ response' = Some([kind |-> "unexpected"])
  /\ isLoading' = FinallyIsLoading("unexpected", isLoading)
  /\ UNCHANGED <<leafletZoom, mounted, searchTerm, mapZoom, visibleBounds, error,
                 selectedFileId, targetCoordinates, selectedLocation, initialRadarData>>
  /\ SearchEffect
  /\ Rerender
  /\ UNCHANGED <<callVars, popupVars, boxVars, coarseVars>>

FetchErrors ==
  {"Failed to fetch data: 500", "No radar plots found", "Failed to fetch"}

\* Faulty variant of FetchFailed: the catch block sets error and falls back
\* to nothing, so the data of the load before stays.
FetchFailedNoFallback ==
  /\ \E fileId \in inFlight : inFlight' = inFlight \ {fileId}
  /\ \E message \in FetchErrors :
       /\ response' = Some([kind |-> "failed", message |-> message])
       /\ error' = Some(message)
  /\ isLoading' = FALSE
  /\ UNCHANGED <<leafletZoom, mounted, searchTerm, mapZoom, visibleBounds,
                 selectedFileId, targetCoordinates, selectedLocation, initialRadarData,
                 allLocations, filteredLocations, dataMetadata, debounceTimer,
                 locationsToRender>>
  /\ UNCHANGED <<callVars, popupVars, boxVars, coarseVars>>

\* The request fails: a status that is not OK, an error field in the body,
\* or a rejected fetch.
FetchFailed ==
  /\ \E fileId \in inFlight : inFlight' = inFlight \ {fileId}
  /\ \E message \in FetchErrors :
       /\ response' = Some([kind |-> "failed", message |-> message])
       /\ error' = Some(message)
  /\ allLocations' = sampleLocations
  /\ filteredLocations' = sampleLocations
  /\ dataMetadata' = Null
  /\ isLoading' = FinallyIsLoading("failed", isLoading)
  /\ UNCHANGED <<leafletZoom, mounted, searchTerm, mapZoom, visibleBounds,
                 selectedFileId, targetCoordinates, selectedLocation, initialRadarData>>
  /\ SearchEffect
  /\ Rerender
  /\ UNCHANGED <<callVars, popupVars, boxVars, coarseVars>>

\* The prop initialRadarData: none, or the radar data of the page.
InitialData == {Null, Some("radarData")}

Init == InitView /\ initialRadarData \in InitialData /\ IdleCall

Next ==
  \/ Mount
  \/ SetSearchTerm
  \/ DebounceFire
  \/ ZoomEnd
  \/ MoveEnd
  \/ RefreshRadarData
  \/ HandleFileSelect
  \/ FetchLoaded
  \/ FetchUnexpected
  \/ FetchFailed

Spec == Init /\ [][Next]_vars

\* ------------------------------------------------------ the coordinate search

\* The value of each decimal digit.
DigitValue ==
  ("0" :> 0) @@ ("1" :> 1) @@ ("2" :> 2) @@ ("3" :> 3) @@ ("4" :> 4) @@
  ("5" :> 5) @@ ("6" :> 6) @@ ("7" :> 7) @@ ("8" :> 8) @@ ("9" :> 9)

\* The number of digits of s from position j on, up to the first character
\* that is no digit.
RECURSIVE DigitRun(_, _)
DigitRun(s, j) ==
  IF j <= Len(s) /\ CharAt(s, j) \in DOMAIN DigitValue
  THEN 1 + DigitRun(s, j + 1)
  ELSE 0

\* The number a string of digits writes.
RECURSIVE DecimalValue(_)
DecimalValue(digits) ==
  IF Len(digits) = 0 THEN 0
  ELSE 10 * DecimalValue(SubSeq(digits, 1, Len(digits) - 1))
       + DigitValue[CharAt(digits, Len(digits))]

\* The text without its leading blanks.
RECURSIVE TrimStart(_)
TrimStart(s) ==
  IF Len(s) > 0 /\ CharAt(s, 1) = " " THEN TrimStart(SubSeq(s, 2, Len(s))) ELSE s

\* parseFloat(text) in units of 0.0001: leading blanks are skipped, then a
\* sign, digits, and a point with digits are read, and whatever follows is
\* ignored; NaN when no digit was read.  Exponents and "Infinity" are not
\* read, and digits beyond the fourth decimal are dropped: the texts of the
\* model have neither.
ParseFloat(text) ==
  LET s == TrimStart(text)
      signed == Len(s) > 0 /\ CharAt(s, 1) \in {"-", "+"}
      from == IF signed THEN 2 ELSE 1
      whole == DigitRun(s, from)
      point == from + whole <= Len(s) /\ CharAt(s, from + whole) = "."
      decimals == IF point THEN DigitRun(s, from + whole + 1) ELSE 0
      fraction == SubSeq(s, from + whole + 1, from + whole + decimals) \o "0000"
      magnitude == DecimalValue(SubSeq(s, from, from + whole - 1)) * 10000
                   + DecimalValue(SubSeq(fraction, 1, 4))
  IN IF whole + decimals = 0 THEN NaN
     ELSE IF signed /\ CharAt(s, 1) = "-" THEN 0 - magnitude
     ELSE magnitude

\* The bounds of lat and lng in units of 0.0001 degree.
MaxLat == 900000
MaxLng == 1800000

\* The texts typed into the latitude box and into the longitude box: the
\* empty text, a bound of the range (after a blank, before letters) and a
\* value beyond the range.
LatitudeTexts == {"", " -90", "90.0001"}
LongitudeTexts == {"", "180abc", "-180.5"}

\* onLatitudeChange={setLatitude}
SetLatitude ==
  /\ mounted
  /\ \E text \in LatitudeTexts :
       /\ text # latitude
       /\ latitude' = text
  /\ UNCHANGED longitude
  /\ UNCHANGED <<callVars, viewVars, popupVars, coarseVars>>

\* onLongitudeChange={setLongitude}
SetLongitude ==
  /\ mounted
  /\ \E text \in LongitudeTexts :
       /\ text # longitude
       /\ longitude' = text
  /\ UNCHANGED latitude
  /\ UNCHANGED <<callVars, viewVars, popupVars, coarseVars>>

\* Faulty variant of OutOfRange: the bounds themselves are refused.
OutOfRangeStrict(lat, lng) ==
  lat <= 0 - MaxLat \/ lat >= MaxLat \/ lng <= 0 - MaxLng \/ lng >= MaxLng

\* lat < -90 || lat > 90 || lng < -180 || lng > 180
OutOfRange(lat, lng) ==
  lat < 0 - MaxLat \/ lat > MaxLat \/ lng < 0 - MaxLng \/ lng > MaxLng

\* handleCoordinateSearch, and the render that follows.
HandleCoordinateSearch ==
  /\ mounted
  /\ LET lat == ParseFloat(latitude)
         lng == ParseFloat(longitude)
     IN IF IsNaN(lat) \/ IsNaN(lng)
        THEN /\ error' = Some("Please enter valid coordinates")
             /\ UNCHANGED targetCoordinates
        ELSE IF OutOfRange(lat, lng)
        THEN /\ error' = Some("Coordinates out of range")
             /\ UNCHANGED targetCoordinates
        ELSE /\ targetCoordinates' = Some([lat |-> lat, lng |-> lng])
             /\ error' = Null
  /\ UNCHANGED <<leafletZoom, mounted, allLocations, filteredLocations, searchTerm,
                 debounceTimer, mapZoom, visibleBounds, inFlight, isLoading,
                 selectedFileId, dataMetadata, selectedLocation, initialRadarData,
                 response>>
  /\ Rerender
  /\ UNCHANGED <<callVars, popupVars, boxVars, coarseVars>>

\* The component with the coordinate search, the search box and the data
\* requests of mount and refresh; the map is left where it is at mount and
\* no file is picked in the file selector.
NextSearch ==
  \/ Mount
  \/ SetLatitude
  \/ SetLongitude
  \/ HandleCoordinateSearch
  \/ SetSearchTerm
  \/ DebounceFire
  \/ RefreshRadarData
  \/ FetchLoaded
  \/ FetchUnexpected
  \/ FetchFailed

SpecSearch == Init /\ [][NextSearch]_vars

\* ------------------------------------------------------------- the popups

\* location.clusterPoints.length <= 10, the test around the member list.
PopupGuard == 10
\* location.clusterPoints.slice(0, 10)
PopupSlice == 10

\* The marker loop skips an item whose lat or lng is not a number.
MarkerRendered(item) ==
  IF IsCluster(item) THEN ~IsNaNRat(item.lat) /\ ~IsNaNRat(item.lng)
  ELSE ~IsNaN(item.lat) /\ ~IsNaN(item.lng)

\* The members the popup of a marker lists under "Individual Points": those
\* of clusterPoints.slice(0, 10) when the item is a cluster whose
\* clusterPoints has at most 10 elements, none otherwise.
PopupPoints(item) ==
  IF IsCluster(item) /\ Len(item.clusterPoints) <= PopupGuard
  THEN SubSeq(item.clusterPoints, 1,
              IF Len(item.clusterPoints) < PopupSlice
              THEN Len(item.clusterPoints) ELSE PopupSlice)
  ELSE <<>>

\* The i-th plot of a dense patch: plots within 0.0002 degree of each other.
TightPlot(i) ==
  Plot(i % 3, i % 2, (i % 4) * 100, i * 3, 10 * i)

TightPlots(n) == [j \in 1..n |-> TightPlot(j - 1)]

\* The plot lists behind the render lists whose popups are opened: a dense
\* patch of up to MaxMembers plots, alone or with one plot a degree away.
PopupLists ==
  {TightPlots(n) \o far : n \in 1..MaxMembers,
                          far \in {<<>>, <<Plot(-2, 9600, 330, Undefined, 0)>>}}

PopupZooms == {DefaultZoom, InitialMapZoom, DetailZoom}

\* The render list of a call that has returned is on the map, no popup open.
InitPopup ==
  /\ InitView
  /\ initialRadarData = Null
  /\ radarPlots \in PopupLists
  /\ locations = RouteLocations(radarPlots, "f1")
  /\ zoomLevel \in PopupZooms
  /\ pc = "done"
  /\ gridSize = GridSize(locations, zoomLevel)
  /\ clusters = Partition(locations, gridSize)
  /\ idx = Len(locations) + 1
  /\ clusteredPoints = ClusteredPoints(clusters, zoomLevel)
  /\ firstResult = NoResult
  /\ again = FALSE

\* A click on a marker opens its popup.
OpenPopup ==
  /\ pc = "done"
  /\ \E j \in 1..Len(clusteredPoints) :
       /\ j # popupItem
       /\ MarkerRendered(clusteredPoints[j])
       /\ popupItem' = j
       /\ popupPoints' = PopupPoints(clusteredPoints[j])
  /\ UNCHANGED <<callVars, viewVars, boxVars, coarseVars>>

\* The popup is closed.
ClosePopup ==
  /\ popupItem # 0
  /\ popupItem' = 0
  /\ popupPoints' = <<>>
  /\ UNCHANGED <<callVars, viewVars, boxVars, coarseVars>>

NextPopup == OpenPopup \/ ClosePopup

SpecPopup == InitPopup /\ [][NextPopup]_vars

\* ================================================================ properties

\* ---- vocabulary of the properties of one call

Done == pc = "done"

\* The positions of the items of a render list that are clusters, and of
\* those that are individual points.
ClusterItems(items) == {j \in 1..Len(items) : IsCluster(items[j])}
IndividualItems(items) == {j \in 1..Len(items) : ~IsCluster(items[j])}

\* How often the point is an individual item of the list, and how often it
\* is a member of one of the list's clusters.
TimesIndividual(items, point) ==
  Cardinality({j \in IndividualItems(items) : items[j] = point})
TimesMember(items, point) ==
  Cardinality({m \in {<<j, k>> \in ClusterItems(items) \X (1..MaxPoints + 1) :
                        k <= Len(items[j].clusterPoints)} :
                 items[m[1]].clusterPoints[m[2]] = point})

\* The grid cell of a point: the pair of floors of its coordinates over the
\* cell size of the call.
CellOf(point) == <<FloorDiv(point.lat, gridSize), FloorDiv(point.lng, gridSize)>>

\* The positions of the input points that share the cell of locations[j].
CellMates(j) == {k \in 1..Len(locations) : CellOf(locations[k]) = CellOf(locations[j])}
CellSize(j) == Cardinality(CellMates(j))

\* The clusters of the result that hold the point.
ClustersHolding(point) ==
  {j \in ClusterItems(clusteredPoints) :
     \E k \in 1..Len(clusteredPoints[j].clusterPoints) :
        clusteredPoints[j].clusterPoints[k] = point}

\* C1 (Conservation): when a call on a non-empty list has returned, every
\* input point is recovered exactly once from the individual items together
\* with the members of the clusters, and nothing else is recovered.
C1_Conservation ==
  (Done /\ locations # <<>>) =>
    /\ \A j \in 1..Len(locations) :
         TimesIndividual(clusteredPoints, locations[j])
           + TimesMember(clusteredPoints, locations[j]) = 1
    /\ Cardinality(IndividualItems(clusteredPoints))
         + Cardinality({<<j, k>> \in ClusterItems(clusteredPoints) \X (1..MaxPoints + 1) :
                          k <= Len(clusteredPoints[j].clusterPoints)})
       = Len(locations)

\* A call has returned both a cluster and an individual point.
C1_Witness ==
  /\ Done
  /\ Len(locations) >= 3
  /\ ClusterItems(clusteredPoints) # {}
  /\ IndividualItems(clusteredPoints) # {}

\* C3 (Zoom override): at zoom 12 and above, every point of a cell of 2 or 3
\* points is in the result as an individual item, and in no cluster.
C3_ZoomOverride ==
  (Done /\ zoomLevel >= 12) =>
    \A j \in 1..Len(locations) :
      CellSize(j) \in {2, 3} =>
        /\ TimesIndividual(clusteredPoints, locations[j]) = 1
        /\ ClustersHolding(locations[j]) = {}

\* A call at zoom 12 or above on a list with a cell of 3 points has returned.
C3_Witness ==
  /\ Done
  /\ zoomLevel >= 12
  /\ \E j \in 1..Len(locations) :
       /\ CellSize(j) = 3
       /\ TimesIndividual(clusteredPoints, locations[j]) = 1

\* C4 (Threshold respect): at every zoom level the only point of a cell is
\* in the result as itself, and no cluster of a result has fewer than 2
\* members.
C4_ThresholdRespect ==
  Done =>
    /\ \A j \in 1..Len(locations) :
         CellSize(j) = 1 =>
           /\ TimesIndividual(clusteredPoints, locations[j]) = 1
           /\ ClustersHolding(locations[j]) = {}
    /\ \A j \in ClusterItems(clusteredPoints) :
         /\ clusteredPoints[j].clusterSize >= 2
         /\ Len(clusteredPoints[j].clusterPoints) >= 2

\* A call below zoom 12 has returned the only point of a cell beside a cluster.
C4_Witness ==
  /\ Done
  /\ zoomLevel < 12
  /\ \E j \in 1..Len(locations) : CellSize(j) = 1
  /\ ClusterItems(clusteredPoints) # {}

\* C5 (Cluster emission): a cell of 2 or more points below zoom 12, and a
\* cell of 4 or more points from zoom 12 on, gives exactly one cluster, whose
\* clusterSize and number of clusterPoints are the number of points of the
\* cell; its points are not individual items.
C5_ClusterEmission ==
  Done =>
    \A j \in 1..Len(locations) :
      ((zoomLevel < 12 /\ CellSize(j) >= 2) \/ (zoomLevel >= 12 /\ CellSize(j) >= 4)) =>
        /\ Cardinality(ClustersHolding(locations[j])) = 1
        /\ \A c \in ClustersHolding(locations[j]) :
             /\ clusteredPoints[c].clusterSize = CellSize(j)
             /\ Len(clusteredPoints[c].clusterPoints) = CellSize(j)
        /\ TimesIndividual(clusteredPoints, locations[j]) = 0

\* A call at zoom 12 or above has returned the cluster of a cell of 4 points.
C5_Witness ==
  /\ Done
  /\ zoomLevel >= 12
  /\ \E j \in 1..Len(locations) :
       /\ CellSize(j) >= 4
       /\ ClustersHolding(locations[j]) # {}

\* The sum of a coordinate over the points, and the sum of a measurement
\* with every missing value counted as 0.
RECURSIVE SumOfCoordinate(_, _)
SumOfCoordinate(points, field) ==
  IF points = <<>> THEN 0
  ELSE Head(points)[field] + SumOfCoordinate(Tail(points), field)

RECURSIVE SumMissingAsZero(_, _)
SumMissingAsZero(points, field) ==
  IF points = <<>> THEN 0
  ELSE (IF Head(points)[field] = Undefined THEN 0 ELSE Head(points)[field])
       + SumMissingAsZero(Tail(points), field)

NumericCoordinates(points) ==
  \A k \in 1..Len(points) : ~IsNaN(points[k].lat) /\ ~IsNaN(points[k].lng)

\* The quotient q is total / count.
IsQuotient(q, total, count) == q.den # 0 /\ q.num * count = total * q.den

\* C6 (Cluster statistics): the lat and lng of a cluster are the sums of its
\* members' lat and lng over the member count (NaN when a member's is not a
\* number), and its reflectivity, rainfall_rate and altitude are the sums
\* of the members' values, a missing value counted as 0, over the member
\* count.
C6_ClusterStatistics ==
  Done =>
    \A j \in ClusterItems(clusteredPoints) :
      LET c == clusteredPoints[j]
          members == c.clusterPoints
      IN /\ IF \A k \in 1..Len(members) : ~IsNaN(members[k].lat)
            THEN IsQuotient(c.lat, SumOfCoordinate(members, "lat"), Len(members))
            ELSE IsNaNRat(c.lat)
         /\ IF \A k \in 1..Len(members) : ~IsNaN(members[k].lng)
            THEN IsQuotient(c.lng, SumOfCoordinate(members, "lng"), Len(members))
            ELSE IsNaNRat(c.lng)
         /\ \A field \in {"reflectivity", "rainfall_rate", "altitude"} :
              IsQuotient(c[field], SumMissingAsZero(members, field), Len(members))

\* A call has returned a cluster of three points with the rainfall rates
\* 1.0, 2.0 and 3.0 and the reflectivities 10.0, missing and 45.0: its
\* rainfall rate is 2.0 and its reflectivity (10.0 + 45.0 + 0) / 3.
C6_Witness ==
  /\ Done
  /\ \E j \in ClusterItems(clusteredPoints) :
       LET c == clusteredPoints[j]
       IN /\ [k \in 1..Len(c.clusterPoints) |-> c.clusterPoints[k].rainfall_rate]
               = <<10, 20, 30>>
          /\ [k \in 1..Len(c.clusterPoints) |-> c.clusterPoints[k].reflectivity]
               = <<100, Undefined, 450>>
          /\ RatEq(c.rainfall_rate, Rat(20, 1))
          /\ RatEq(c.reflectivity, Rat(550, 3))

\* C7 (Determinism): a second call with the same point list and zoom level
\* returns the same individual items and the same clusters as the first.
C7_Determinism ==
  (Done /\ again) =>
    {clusteredPoints[j] : j \in 1..Len(clusteredPoints)}
      = {firstResult[j] : j \in 1..Len(firstResult)}

\* The second call on a list has returned a cluster and an individual point.
C7_Witness ==
  /\ Done
  /\ again
  /\ ClusterItems(clusteredPoints) # {}
  /\ IndividualItems(clusteredPoints) # {}

\* C9 (Grid floor): once a call has computed gridSize for a list of points
\* with numeric coordinates (the empty list and a list of points that share
\* one coordinate included), gridSize is at least 0.0005 degree, at every
\* zoom level.
C9_GridFloor ==
  (pc \in {"forEach", "done"} /\ NumericCoordinates(locations)) =>
    /\ gridSize.den > 0
    /\ gridSize.num * 1 >= MinGridUnits * gridSize.den

\* A call on two or more points that share one coordinate has computed
\* gridSize.
C9_Witness ==
  /\ Done
  /\ Len(locations) >= 2
  /\ NumericCoordinates(locations)
  /\ \A k \in 1..Len(locations) :
       locations[k].lat = locations[1].lat /\ locations[k].lng = locations[1].lng
  /\ RatEq(gridSize, Rat(MinGridUnits, 1))

\* C10 (Retained member list): the clusterPoints of every cluster are the
\* input points of its cell, in input order and as they were given, and
\* the input list is what it was before the call.
C10_RetainedMembers ==
  Done =>
    /\ \A j \in ClusterItems(clusteredPoints) :
         clusteredPoints[j].clusterPoints
           = SelectSeq(locations, LAMBDA point :
               CellOf(point) = CellOf(clusteredPoints[j].clusterPoints[1]))
    /\ locations = RouteLocations(radarPlots, "f1")

\* A call has returned a cluster of three different points.
C10_Witness ==
  /\ Done
  /\ \E j \in ClusterItems(clusteredPoints) :
       /\ Len(clusteredPoints[j].clusterPoints) = 3
       /\ clusteredPoints[j].clusterPoints[1].lat # clusteredPoints[j].clusterPoints[2].lat
       /\ clusteredPoints[j].clusterPoints[2].lat # clusteredPoints[j].clusterPoints[3].lat

\* ---- properties of the component

\* C2 (Render policy threshold): with at most 100 filtered points the render
\* list is the filtered list itself and holds no cluster; with more than 100
\* it is what clusterNearbyMarkers returns for the filtered list at mapZoom.
C2_RenderThreshold ==
  /\ Len(filteredLocations) <= 100 =>
       /\ locationsToRender = filteredLocations
       /\ ClusterItems(locationsToRender) = {}
  /\ Len(filteredLocations) > 100 =>
       locationsToRender = ClusterNearbyMarkers(filteredLocations, mapZoom)

\* Exactly 100 filtered points are rendered individually at a zoom level
\* below 12.
C2_Witness ==
  /\ mounted
  /\ Len(filteredLocations) = 100
  /\ mapZoom < 12
  /\ locationsToRender = filteredLocations

\* C8 (No carried state): in every state, after any zoom changes, search
\* changes and data loads, the render list is the one the render policy
\* computes from the current filtered list and the current zoom level.
C8_NoCarriedState ==
  locationsToRender = ComputeLocationsToRender(filteredLocations, mapZoom)

\* After a data load, a search and a zoom change the render list holds the
\* more than 100 filtered points at zoom 12 or above.
C8_Witness ==
  /\ mounted
  /\ debounceTimer = Null
  /\ searchTerm = "rain"
  /\ Len(filteredLocations) > 100
  /\ mapZoom >= 12
  /\ locationsToRender # <<>>

\* ---- C11 to C20

\* The first input point, in input order, of the cell of the point.
FirstOfCell(point) ==
  locations[CHOOSE k \in 1..Len(locations) :
              /\ CellOf(locations[k]) = CellOf(point)
              /\ \A m \in 1..(k - 1) : CellOf(locations[m]) # CellOf(point)]

\* C11 (Cluster id): the id of every cluster of a result is "cluster_", the
\* id of the first input point of the cluster's cell, "_" and the member
\* count; a second call on the same input gives the same cluster ids.
C11_ClusterId ==
  Done =>
    /\ \A j \in ClusterItems(clusteredPoints) :
         clusteredPoints[j].id
           = "cluster_" \o FirstOfCell(clusteredPoints[j].clusterPoints[1]).id
               \o "_" \o ToString(Len(clusteredPoints[j].clusterPoints))
    /\ again =>
         {clusteredPoints[j].id : j \in ClusterItems(clusteredPoints)}
           = {firstResult[j].id : j \in ClusterItems(firstResult)}

\* The second call has returned a cluster of three points whose first member
\* is the second point of the input, so its id is cluster_radar_f1_1_3.
C11_Witness ==
  /\ Done
  /\ again
  /\ \E j \in ClusterItems(clusteredPoints) :
       /\ clusteredPoints[j].id = "cluster_radar_f1_1_3"
       /\ clusteredPoints[j].clusterPoints[1] = locations[2]
       /\ clusteredPoints[j].clusterPoints[3] # locations[2]

\* C12 (Empty input): a call on the empty point list, at any zoom level,
\* does not end with an error; its partition is empty and it returns the
\* empty render list.
C12_EmptyInput ==
  locations = <<>> =>
    /\ pc # "error"
    /\ pc \in {"forEach", "done"} => clusters = <<>>
    /\ Done => clusteredPoints = <<>>

\* A call on the empty list has returned at a negative zoom level.
C12_Witness ==
  /\ Done
  /\ locations = <<>>
  /\ zoomLevel < 0
  /\ clusteredPoints = <<>>

\* C13 (No fault): no call on a list of points with numeric coordinates ends
\* with an error, at any zoom level.
C13_NoFault ==
  NumericCoordinates(locations) => pc # "error"

\* C14 (Validated input feed): every location held in allLocations and in
\* filteredLocations has a numeric lat and a numeric lng.
C14_ValidatedFeed ==
  /\ NumericCoordinates(allLocations)
  /\ NumericCoordinates(filteredLocations)

\* C15 (Detail expansion): the open popup of a cluster, whatever the size of
\* the cluster, lists the first min(10, member count) members of its
\* clusterPoints.
C15_DetailExpansion ==
  (popupItem # 0 /\ IsCluster(clusteredPoints[popupItem])) =>
    LET members == clusteredPoints[popupItem].clusterPoints
    IN popupPoints = SubSeq(members, 1, IF Len(members) < 10 THEN Len(members) ELSE 10)

\* C16 (Search debounce): at most one timer is pending, and it holds the
\* current searchTerm and allLocations; a change of searchTerm alone leaves
\* filteredLocations as it is and replaces the pending timer by one for the
\* new term; and outside a data load filteredLocations changes only when the
\* pending timer fires, to the filter of allLocations by the current (last)
\* search term, after which no timer is pending.
C16_SearchDebounce ==
  /\ [](/\ Len(debounceTimer) <= 1
        /\ debounceTimer # <<>> =>
             /\ debounceTimer[1].term = searchTerm
             /\ debounceTimer[1].all = allLocations)
  /\ [][(searchTerm' # searchTerm /\ inFlight' = inFlight) =>
          /\ filteredLocations' = filteredLocations
          /\ debounceTimer' = <<[term |-> searchTerm', all |-> allLocations]>>]_vars
  /\ [][(filteredLocations' # filteredLocations /\ inFlight' = inFlight) =>
          /\ debounceTimer # <<>>
          /\ debounceTimer' = <<>>
          /\ filteredLocations' = FilterLocations(allLocations, searchTerm)]_vars

\* The search term was changed to HIGH while data is loaded: the timer for
\* it is pending and filteredLocations is still the unfiltered list.
C16_Witness ==
  /\ mounted
  /\ allLocations # <<>>
  /\ Len(debounceTimer) = 1
  /\ debounceTimer[1].term = "HIGH"
  /\ searchTerm = "HIGH"
  /\ filteredLocations = allLocations
  /\ FilterLocations(allLocations, "HIGH") # allLocations

\* C17 (Zoom signal): once the map is mounted, and so after every zoom-end
\* event, mapZoom is the map's zoom level; a pan (a step that changes
\* visibleBounds and not the map's zoom level) leaves mapZoom and the rest
\* of the component's state unchanged.
C17_ZoomSignal ==
  /\ [](mounted => leafletZoom = Some(mapZoom))
  /\ [][(mounted /\ visibleBounds' # visibleBounds /\ leafletZoom' = leafletZoom) =>
          /\ mapZoom' = mapZoom
          /\ <<allLocations, filteredLocations, searchTerm, debounceTimer,
               locationsToRender, inFlight, isLoading, error, selectedFileId,
               dataMetadata, targetCoordinates, selectedLocation>>'
             = <<allLocations, filteredLocations, searchTerm, debounceTimer,
                 locationsToRender, inFlight, isLoading, error, selectedFileId,
                 dataMetadata, targetCoordinates, selectedLocation>>]_vars

\* The map was zoomed from its zoom level at mount to 12 and panned to
\* another view.
C17_Witness ==
  /\ mounted
  /\ leafletZoom = Some(DetailZoom)
  /\ mapZoom = DetailZoom
  /\ visibleBounds = Some("v2")

\* The call is the one of scenario B: 150 points whose lat and lng both
\* spread over 1 degree, at zoom 5.
IsScenarioB ==
  /\ Len(locations) = 150
  /\ zoomLevel = 5
  /\ NumericCoordinates(locations)
  /\ SpreadOf(Lats(locations)) = 10000
  /\ SpreadOf(Lngs(locations)) = 10000

\* C18 (Scenario B) as stated: the cell size is 1/30 degree, the result has
\* more than one cluster, every cluster has at least 2 members and the
\* result has fewer than 150 items.
C18_ScenarioB_Stated ==
  (Done /\ IsScenarioB) =>
    /\ RatEq(gridSize, Rat(10000, 30))
    /\ Cardinality(ClusterItems(clusteredPoints)) > 1
    /\ \A j \in ClusterItems(clusteredPoints) : clusteredPoints[j].clusterSize >= 2
    /\ Len(clusteredPoints) < 150

\* C18 (Scenario B), amended: the cell size is 1/30 degree, every cluster
\* has at least 2 members and the result has at most 150 items; it holds a
\* cluster, and then fewer than 150 items, exactly when two of the points
\* share a cell.
C18_ScenarioB ==
  (Done /\ IsScenarioB) =>
    /\ RatEq(gridSize, Rat(10000, 30))
    /\ \A j \in ClusterItems(clusteredPoints) : clusteredPoints[j].clusterSize >= 2
    /\ Len(clusteredPoints) <= 150
    /\ (ClusterItems(clusteredPoints) # {}) <=> (\E j \in 1..Len(locations) : CellSize(j) >= 2)
    /\ (Len(clusteredPoints) < 150) <=> (ClusterItems(clusteredPoints) # {})

\* The call on the scattered points has returned more than one cluster and
\* fewer than 150 items.
C18_Witness ==
  /\ Done
  /\ IsScenarioB
  /\ Cardinality(ClusterItems(clusteredPoints)) > 1
  /\ Len(clusteredPoints) < 150

\* The largest and the smallest value of a coordinate over the points.
LargestCoordinate(points, field) ==
  CHOOSE x \in {points[j][field] : j \in 1..Len(points)} :
    \A j \in 1..Len(points) : x >= points[j][field]
SmallestCoordinate(points, field) ==
  CHOOSE x \in {points[j][field] : j \in 1..Len(points)} :
    \A j \in 1..Len(points) : x <= points[j][field]

\* The larger of the lat spread and the lng spread of the points.
LargerSpread(points) ==
  LET latSpread == LargestCoordinate(points, "lat") - SmallestCoordinate(points, "lat")
      lngSpread == LargestCoordinate(points, "lng") - SmallestCoordinate(points, "lng")
  IN IF latSpread >= lngSpread THEN latSpread ELSE lngSpread

\* 2 ^ n for n >= 0.
RECURSIVE TwoToThe(_)
TwoToThe(n) == IF n = 0 THEN 1 ELSE 2 * TwoToThe(n - 1)

\* C19 (Cell size formula): once a call on a non-empty list of points with
\* numeric coordinates has computed gridSize, gridSize is the larger of
\* 0.0005 degree and spread / divisor / 2^max(0, zoomLevel - 8), where spread
\* is the larger of the lat spread and the lng spread and divisor is 50 from
\* zoom 12 on and 30 below; up to zoom 8 it is the larger of 0.0005 degree
\* and spread / 30.
C19_CellSizeFormula ==
  (pc \in {"forEach", "done"} /\ locations # <<>> /\ NumericCoordinates(locations)) =>
    LET spread == LargerSpread(locations)
        divisor == IF zoomLevel >= 12 THEN 50 ELSE 30
        factor == TwoToThe(IF zoomLevel - 8 > 0 THEN zoomLevel - 8 ELSE 0)
    IN /\ gridSize.den > 0
       /\ IF spread > 5 * divisor * factor
          THEN gridSize.num * divisor * factor = spread * gridSize.den
          ELSE gridSize.num = 5 * gridSize.den
       /\ zoomLevel <= 8 =>
            IF spread > 5 * 30
            THEN gridSize.num * 30 = spread * gridSize.den
            ELSE gridSize.num = 5 * gridSize.den

\* A call at zoom 13 on points that spread over 0.96 degree has computed
\* the cell size 0.96 / 50 / 32 = 0.0006 degree, above the floor.
C19_Witness ==
  /\ Done
  /\ zoomLevel = 13
  /\ locations # <<>>
  /\ NumericCoordinates(locations)
  /\ LargerSpread(locations) = 9600
  /\ gridSize.num = 6 * gridSize.den

\* The floor of x / gridSize for the cell size of the call, and the pair of
\* floors of a point.
FloorOf(x) == (x * gridSize.den) \div gridSize.num
FloorPair(point) == <<FloorOf(point.lat), FloorOf(point.lng)>>

\* The buckets that hold the point, and how often they hold it.
BucketsOf(point) ==
  {b \in 1..Len(clusters) :
     \E m \in 1..Len(clusters[b].points) : clusters[b].points[m] = point}
TimesInBuckets(point) ==
  Cardinality({bm \in {<<b, m>> \in (1..Len(clusters)) \X (1..Len(locations)) :
                          m <= Len(clusters[b].points)} :
                 clusters[bm[1]].points[bm[2]] = point})

\* C20 (Cell assignment): while and after forEach runs on points with
\* numeric coordinates, every point it has visited is in exactly one
\* bucket, once, and that bucket is the one whose key is written from
\* floor(lat / gridSize) and floor(lng / gridSize); no two buckets have one
\* key; two visited points are in the same bucket exactly when their floor
\* pairs are equal; and a point not yet visited is in no bucket.
C20_CellAssignment ==
  (pc \in {"forEach", "done"} /\ NumericCoordinates(locations)) =>
    /\ \A j \in 1..(idx - 1) :
         LET point == locations[j]
         IN /\ FloorOf(point.lat) * gridSize.num <= point.lat * gridSize.den
            /\ point.lat * gridSize.den < (FloorOf(point.lat) + 1) * gridSize.num
            /\ Cardinality(BucketsOf(point)) = 1
            /\ TimesInBuckets(point) = 1
            /\ \A b \in BucketsOf(point) :
                 clusters[b].key = ToString(FloorOf(point.lat)) \o "_"
                                     \o ToString(FloorOf(point.lng))
    /\ \A b, c \in 1..Len(clusters) : clusters[b].key = clusters[c].key => b = c
    /\ \A j, k \in 1..(idx - 1) :
         (BucketsOf(locations[j]) = BucketsOf(locations[k]))
           <=> (FloorPair(locations[j]) = FloorPair(locations[k]))
    /\ \A j \in idx..Len(locations) : BucketsOf(locations[j]) = {}

\* A call at zoom 5 has put three points into one bucket and the point with
\* the negative latitude into the bucket of the pair (-1, 30).
C20_Witness ==
  /\ Done
  /\ NumericCoordinates(locations)
  /\ \E b, c \in 1..Len(clusters) :
       /\ clusters[b].key = "-1_30"
       /\ Len(clusters[b].points) = 1
       /\ FloorPair(clusters[b].points[1]) = <<-1, 30>>
       /\ Len(clusters[c].points) = 3

\* ---- C21 to C30

\* The points all have the lat and the lng of the first.
SharedCoordinate(points) ==
  \A k \in 1..Len(points) :
    points[k].lat = points[1].lat /\ points[k].lng = points[1].lng

\* C21 (Degenerate extent): when the points of a call all have one numeric
\* lat and one numeric lng (a single point included), at every zoom level
\* gridSize is exactly 0.0005 degree and, once forEach is through, all
\* points are in one cell; the call returns the point itself for one point,
\* the 2 or 3 points individually from zoom 12 on, and otherwise one cluster
\* of all the points at the shared coordinate.
C21_DegenerateExtent ==
  (locations # <<>> /\ NumericCoordinates(locations) /\ SharedCoordinate(locations)) =>
    /\ pc \in {"forEach", "done"} =>
         gridSize.den > 0 /\ gridSize.num = 5 * gridSize.den
    /\ (pc = "forEach" /\ idx > Len(locations)) \/ Done =>
         /\ Len(clusters) = 1
         /\ clusters[1].points = locations
    /\ Done =>
         IF Len(locations) = 1 \/ (zoomLevel >= 12 /\ Len(locations) <= 3)
         THEN clusteredPoints = locations
         ELSE /\ Len(clusteredPoints) = 1
              /\ IsCluster(clusteredPoints[1])
              /\ clusteredPoints[1].clusterPoints = locations
              /\ clusteredPoints[1].clusterSize = Len(locations)
              /\ IsQuotient(clusteredPoints[1].lat, locations[1].lat, 1)
              /\ IsQuotient(clusteredPoints[1].lng, locations[1].lng, 1)

\* A call at zoom 12 or above on 4 points that share a negative lat has
\* returned one cluster at that coordinate.
C21_Witness ==
  /\ Done
  /\ zoomLevel >= 12
  /\ Len(locations) = 4
  /\ SharedCoordinate(locations)
  /\ locations[1].lat = -2
  /\ Len(clusteredPoints) = 1
  /\ IsCluster(clusteredPoints[1])
  /\ RatEq(clusteredPoints[1].lat, Rat(-2, 1))

\* The ids of the items of a render list, in order.
ItemIds(items) == [j \in 1..Len(items) |-> items[j].id]

\* No value is at two positions of the sequence.
PairwiseDistinct(xs) == \A j, k \in 1..Len(xs) : xs[j] = xs[k] => j = k

\* C27 (Distinct render keys): when the ids of the input points of a call
\* are pairwise distinct, the ids of the items it returns, individual items
\* and clusters together, are pairwise distinct.
C27_DistinctKeys ==
  (Done /\ PairwiseDistinct(ItemIds(locations))) =>
    PairwiseDistinct(ItemIds(clusteredPoints))

\* A call has returned two clusters of two points each and their ids differ
\* in the first member's id only.
C27_Witness ==
  /\ Done
  /\ PairwiseDistinct(ItemIds(locations))
  /\ Len(clusteredPoints) = 2
  /\ IsCluster(clusteredPoints[1]) /\ clusteredPoints[1].clusterSize = 2
  /\ IsCluster(clusteredPoints[2]) /\ clusteredPoints[2].clusterSize = 2
  /\ clusteredPoints[1].id # clusteredPoints[2].id

\* The call in progress is the one that follows the coarse call by one zoom
\* level, and it has computed gridSize.
OneLevelIn ==
  /\ coarseZoom = Some(zoomLevel - 1)
  /\ pc \in {"forEach", "done"}

\* C22 (Cell size is monotone in zoom): for one list of points with numeric
\* coordinates, gridSize of the call at zoom z + 1 is never larger than
\* gridSize of the call at zoom z (and so never larger than that of any call
\* at a lower zoom); up to zoom 8 the two are equal; and above zoom 8, when
\* gridSize at z + 1 is above 0.0005 degree, it is half of gridSize at z,
\* except from 11 to 12, where it is half of 30/50 of it.
C22_MonotoneZoom ==
  (coarseZoom # Null /\ pc \in {"forEach", "done"} /\ NumericCoordinates(locations)) =>
    /\ gridSize.den > 0 /\ coarseGridSize.den > 0
    /\ gridSize.num * coarseGridSize.den <= coarseGridSize.num * gridSize.den
    /\ OneLevelIn =>
         /\ zoomLevel <= 8 => RatEq(gridSize, coarseGridSize)
         /\ (zoomLevel > 8 /\ gridSize.num > 5 * gridSize.den) =>
              IF zoomLevel = 12
              THEN 2 * 50 * gridSize.num * coarseGridSize.den
                     = 30 * coarseGridSize.num * gridSize.den
              ELSE 2 * gridSize.num * coarseGridSize.den
                     = coarseGridSize.num * gridSize.den

\* The call at zoom 12 on points that spread over 0.96 degree has computed
\* the cell size 0.0012 degree, after the call at zoom 11 computed 0.0040.
C22_Witness ==
  /\ Done
  /\ zoomLevel = 12
  /\ coarseZoom = Some(11)
  /\ RatEq(coarseGridSize, Rat(40, 1))
  /\ RatEq(gridSize, Rat(12, 1))

\* Whether the two points are in one bucket of the cells.
SameCell(cells, p, q) ==
  \E b \in 1..Len(cells) :
    /\ \E m \in 1..Len(cells[b].points) : cells[b].points[m] = p
    /\ \E m \in 1..Len(cells[b].points) : cells[b].points[m] = q

\* The pairs of input points that the coarse call put into different cells
\* are in different cells of this call as well.
Refines ==
  \A j, k \in 1..Len(locations) :
    ~SameCell(coarseClusters, locations[j], locations[k])
      => ~SameCell(clusters, locations[j], locations[k])

\* C28 (Zooming in only splits) as stated: for one list and zoom levels
\* z < z', two points in different cells of the call at z are in different
\* cells of the call at z'.
C28_ZoomInSplits_Stated ==
  (Done /\ coarseZoom # Null) => Refines

\* C28 (Zooming in only splits), amended: two points in different cells at
\* z are in different cells at z' > z when the two levels are on one side
\* of the step from 11 to 12 and the cell size at z' is above 0.0005 degree
\* or the same as at z.
C28_ZoomInSplits ==
  (/\ Done
   /\ coarseZoom # Null
   /\ zoomLevel <= 11 \/ coarseZoom[1] >= 12
   /\ gridSize.num > 5 * gridSize.den \/ RatEq(gridSize, coarseGridSize))
    => Refines

\* Two points were in different cells of the call at zoom 10 and are in
\* different cells of the call at zoom 11, where two points that shared a
\* cell at zoom 10 are apart.
C28_Witness ==
  /\ Done
  /\ coarseZoom = Some(10)
  /\ zoomLevel = 11
  /\ gridSize.num > 5 * gridSize.den
  /\ \E j, k \in 1..Len(locations) :
       /\ locations[j].lat = 40 /\ locations[k].lat = 80
       /\ ~SameCell(coarseClusters, locations[j], locations[k])
       /\ ~SameCell(clusters, locations[j], locations[k])
  /\ \E j, k \in 1..Len(locations) :
       /\ SameCell(coarseClusters, locations[j], locations[k])
       /\ ~SameCell(clusters, locations[j], locations[k])

\* The number a coordinate text is read as, in units of 0.0001: the number
\* its longest prefix of blanks, sign, digits and decimal point writes, and
\* none when that prefix has no digit.
ReadsAs(text, number) ==
  \/ text = "" /\ number = NaN
  \/ text = " -90" /\ number = -900000
  \/ text = "90.0001" /\ number = 900001
  \/ text = "180abc" /\ number = 1800000
  \/ text = "-180.5" /\ number = -1805000

\* C29 (Coordinate search validation): a step that (re)sets error or
\* targetCoordinates while no request starts or settles is a coordinate
\* search.  When a box text reads as no number, or lat is outside [-90, 90]
\* or lng outside [-180, 180], it sets error and leaves targetCoordinates
\* as it is; otherwise it sets targetCoordinates to the pair read and
\* clears error.  So the target is always within the ranges.
C29_CoordinateSearch ==
  /\ [][(/\ <<error, targetCoordinates>>' # <<error, targetCoordinates>>
         /\ inFlight' = inFlight) =>
          \E lat \in {NaN, -900000, 900001}, lng \in {NaN, 1800000, -1805000} :
            /\ ReadsAs(latitude, lat) /\ ReadsAs(longitude, lng)
            /\ IF lat = NaN \/ lng = NaN
                  \/ lat < -900000 \/ lat > 900000 \/ lng < -1800000 \/ lng > 1800000
               THEN /\ error' # Null
                    /\ error'[1] \in {"Please enter valid coordinates",
                                      "Coordinates out of range"}
                    /\ targetCoordinates' = targetCoordinates
               ELSE /\ targetCoordinates' = Some([lat |-> lat, lng |-> lng])
                    /\ error' = Null]_vars
  /\ [](targetCoordinates # Null =>
          /\ targetCoordinates[1].lat >= -900000 /\ targetCoordinates[1].lat <= 900000
          /\ targetCoordinates[1].lng >= -1800000 /\ targetCoordinates[1].lng <= 1800000)

\* A search on the bounds -90 and 180 has set the target; a later search
\* with a latitude beyond 90 has set error and left the target.
C29_Witness ==
  /\ targetCoordinates = Some([lat |-> -900000, lng |-> 1800000])
  /\ latitude = "90.0001"
  /\ longitude = "180abc"
  /\ error = Some("Coordinates out of range")

\* A step in which a data request settles, and the request that does.
Settles == inFlight' # inFlight /\ inFlight' \subseteq inFlight
SettledRequest == CHOOSE fileId \in inFlight \ inFlight' : TRUE

\* Every point of the data is an item of the render list or a member of one
\* of its clusters.
Covers(items, data) ==
  \A k \in 1..Len(data) :
    \E j \in 1..Len(items) :
      \/ items[j] = data[k]
      \/ /\ IsCluster(items[j])
         /\ \E m \in 1..Len(items[j].clusterPoints) : items[j].clusterPoints[m] = data[k]

C24_Fallback ==
  [][(Settles /\ response' # Null /\ response'[1].kind # "locations") =>
       /\ response'[1].kind = "failed" => error' = Some(response'[1].message)
       /\ allLocations' = sampleLocations
       /\ filteredLocations' = sampleLocations
       /\ Len(allLocations') = 5
       /\ dataMetadata' = Null]_vars

\* A refresh after a successful load has failed: error holds the message,
\* the sample locations replace the data and the target of the coordinate
\* search is still there.
C24_Witness ==
  /\ response = Some([kind |-> "failed", message |-> "Failed to fetch data: 500"])
  /\ error = Some("Failed to fetch data: 500")
  /\ allLocations = sampleLocations
  /\ filteredLocations = sampleLocations
  /\ dataMetadata = Null
  /\ targetCoordinates # Null


\* C25 (Search consistency): whenever no debounce timer is pending,
\* filteredLocations is the filter of allLocations by searchTerm (all of
\* allLocations when searchTerm is blank).
C25_SearchConsistency ==
  debounceTimer = <<>> =>
    filteredLocations = FilterLocations(allLocations, searchTerm)


\* Whether the point is drawn: it is an item of the render list that the
\* marker loop keeps, or a member of a cluster that the marker loop keeps.
Drawn(point, items) ==
  \E j \in 1..Len(items) :
    /\ MarkerRendered(items[j])
    /\ \/ items[j] = point
       \/ /\ IsCluster(items[j])
          /\ \E m \in 1..Len(items[j].clusterPoints) : items[j].clusterPoints[m] = point

\* C26 (Valid points stay visible): for a filtered list of more than 100
\* points, every point with numeric coordinates is drawn, by its own marker
\* or by the marker of the cluster that holds it, and every item the marker
\* loop skips is a point whose own coordinates are not numbers.
C26_ValidPointsVisible ==
  Len(filteredLocations) > ClusterThreshold =>
    /\ \A k \in 1..Len(filteredLocations) :
         (~IsNaN(filteredLocations[k].lat) /\ ~IsNaN(filteredLocations[k].lng))
           => Drawn(filteredLocations[k], locationsToRender)
    /\ \A j \in 1..Len(locationsToRender) :
         ~MarkerRendered(locationsToRender[j]) => ~IsCluster(locationsToRender[j])


\* ------------------------------------------------------- requests settle

\* The component under the scheduling the platform gives: the effects of
\* the first commit run, and a request that is in flight settles (with a
\* body, an error status or a network error).
SpecLive ==
  /\ Init
  /\ [][Next]_vars
  /\ WF_vars(Mount)
  /\ WF_vars(FetchFailed \/ FetchUnexpected \/ FetchLoaded)

\* C30 (Loading ends): every call of fetchRadarData leaves isLoading false:
\* at once when initial data was supplied, and otherwise in the step in
\* which its request settles, whatever the outcome; so isLoading is false
\* whenever the component is mounted and no request is in flight, and a
\* loading state always comes to an end.
C30_LoadingEnds ==
  /\ [][Settles => ~isLoading']_vars
  /\ []((mounted /\ initialRadarData # Null) => ~isLoading)
  /\ []((mounted /\ inFlight = {}) => ~isLoading)
  /\ (isLoading ~> ~isLoading)

\* A request has failed: no request is in flight and isLoading is false
\* again, beside the error and the sample locations.
C30_Witness ==
  /\ mounted
  /\ inFlight = {}
  /\ ~isLoading
  /\ error # Null
  /\ response # Null
  /\ response[1].kind = "failed"
  /\ targetCoordinates = Null
  /\ allLocations = sampleLocations

====
